---- MODULE Spec2Model ----
(***************************************************************************)
(* Slit planner (src/src/app.py): one invocation of the update_output      *)
(* callback.  The callback turns the two uploaded sheets into a list of    *)
(* coils and a list of orders, solves one knapsack per coil with           *)
(* scipy.optimize.linprog, sorts the cuts of every pattern, and renders    *)
(* both lists; any exception is caught by the callback's catch-all.        *)
(*                                                                         *)
(* A coil and an order are Python tuples (width, length): <<w, l>>.        *)
(* A pattern is the tuple (coil, cuts): <<coil, cuts>>.                    *)
(* A component of the LP solution x is the exact fraction <<num, den>>.    *)
(***************************************************************************)
EXTENDS Integers, Sequences, FiniteSets

VARIABLES pc, coils, orders, i, patterns, adjusted_patterns, output

vars == <<pc, coils, orders, i, patterns, adjusted_patterns, output>>

----------------------------------------------------------------------------
(* Bounds of the model and the inputs it draws.                            *)

MaxCoils == 2
MaxOrders == 3
\* The longest content string of an upload that does not decode.
MaxDataCharacters == 13

\* Coils: a negative width (the solver finds no solution), width 0, a width
\* smaller than the widest order, and one width with two lengths.
CoilChoices == {<<-1, 1>>, <<0, 1>>, <<3, 1>>, <<7, 1>>, <<7, 2>>}

\* Orders <<width, length>>: two of equal length per unit of width (2/2 and
\* 3/3, a tie for the solver), two of equal width, one wider than a coil.
OrderChoices == {<<2, 2>>, <<3, 3>>, <<3, 2>>, <<5, 3>>}

SeqsUpTo(S, n) == UNION {[1..m -> S] : m \in 0..n}

\* The scenario of the specification: four orders, a coil of width 100,
\* alone and behind a coil of width 0.
ScenarioOrders == <<(<<30, 5>>), (<<40, 3>>), (<<50, 6>>), (<<20, 2>>)>>
ScenarioCoils == {<<(<<100, 1>>)>>, <<(<<0, 1>>), (<<100, 1>>)>>,
                  <<(<<100, 1>>), (<<100, 2>>)>>}

\* Sheets whose rows are not pairs: a coil row of three columns (alone and
\* behind a good coil), a coil row of one column, an order row of one
\* column, an order row of three columns.
MalformedInputs ==
    {<<(<<(<<7, 1, 9>>)>>), (<<(<<2, 2>>)>>)>>,
     <<(<<(<<7, 1>>), (<<7, 1, 9>>)>>), (<<(<<2, 2>>)>>)>>,
     <<(<<(<<7>>)>>), (<<(<<2, 2>>)>>)>>,
     <<(<<(<<7, 1>>)>>), (<<(<<2>>)>>)>>,
     <<(<<(<<7, 1>>)>>), (<<(<<2, 2, 4>>)>>)>>}

Inputs ==
    {<<cs, os>> : cs \in SeqsUpTo(CoilChoices, MaxCoils),
                  os \in SeqsUpTo(OrderChoices, MaxOrders)}
    \cup {<<cs, ScenarioOrders>> : cs \in ScenarioCoils}
    \cup MalformedInputs

----------------------------------------------------------------------------
(* Helpers on sequences.                                                   *)

RECURSIVE SumSeq(_)
SumSeq(s) == IF s = <<>> THEN 0 ELSE Head(s) + SumSeq(Tail(s))

RECURSIVE ProdSeq(_)
ProdSeq(s) == IF s = <<>> THEN 1 ELSE Head(s) * ProdSeq(Tail(s))

Min2(a, b) == IF a <= b THEN a ELSE b
Max2(a, b) == IF a >= b THEN a ELSE b

\* The priorities of n items: the permutations of 1..n, tabulated once for
\* every length of order list the inputs have.
MaxItems == Max2(MaxOrders, Len(ScenarioOrders))
PermutationTable ==
    [n \in 0..MaxItems |->
        {p \in [1..n -> 1..n] : \A j, k \in 1..n : p[j] = p[k] => j = k}]
Permutations(n) == PermutationTable[n]

\* sorted(cuts): the ascending sort (insertion of the head into the sorted tail).
RECURSIVE InsertSorted(_, _)
InsertSorted(v, s) ==
    IF s = <<>> THEN <<v>>
    ELSE IF v <= Head(s) THEN <<v>> \o s
    ELSE <<Head(s)>> \o InsertSorted(v, Tail(s))

\* sorted(cuts, reverse=True)
RECURSIVE InsertSortedDesc(_, _)
InsertSortedDesc(v, s) ==
    IF s = <<>> THEN <<v>>
    ELSE IF v >= Head(s) THEN <<v>> \o s
    ELSE <<Head(s)>> \o InsertSortedDesc(v, Tail(s))

RECURSIVE sorted_descending(_)
sorted_descending(s) ==
    IF s = <<>> THEN <<>> ELSE InsertSortedDesc(Head(s), sorted_descending(Tail(s)))

\* list(reversed(cuts))
reversed(s) == [k \in 1..Len(s) |-> s[Len(s) + 1 - k]]

RECURSIVE sorted(_)
sorted(s) == IF s = <<>> THEN <<>> ELSE InsertSorted(Head(s), sorted(Tail(s)))

----------------------------------------------------------------------------
(* scipy.optimize.linprog(c, A_ub=[weights], b_ub=[capacity],              *)
(* bounds=[(0, 1)] * n, method='highs'), for costs c < 0 and weights > 0.  *)
(*                                                                         *)
(* The program is the continuous relaxation of the knapsack: minimise c.x  *)
(* subject to weights.x <= capacity and 0 <= x <= 1.  Its optimal vertices *)
(* are the greedy fillings by cost per unit of weight: items are taken     *)
(* whole in that order until the capacity is used up, the item that does   *)
(* not fit is taken in part, the rest are left out.  Items of equal cost   *)
(* per weight can be filled in any order; which one the solver follows is  *)
(* not fixed by its contract, so every such order is a possible outcome.   *)

\* Item j costs strictly less per unit of weight than item k.
Cheaper(c, w, j, k) == c[j] * w[k] < c[k] * w[j]

\* The filling orders: p[j] is the place of item j, and a cheaper item
\* comes first.
FillOrders(c, w) ==
    {p \in Permutations(Len(c)) :
        \A j, k \in 1..Len(c) : Cheaper(c, w, j, k) => p[j] < p[k]}

\* The weight of item k that the filling in order p takes.
Taken(w, b, p, k) ==
    LET used == SumSeq([j \in 1..Len(w) |-> IF p[j] < p[k] THEN w[j] ELSE 0])
    IN  Min2(w[k], Max2(0, b - used))

\* The vertex reached in order p: x[k] = Taken / w[k].
LinprogVertex(w, b, p) == [k \in 1..Len(w) |-> <<Taken(w, b, p, k), w[k]>>]

\* c.x, as the fraction <<num, den>> over the common denominator prod(w).
Objective(c, w, x) ==
    <<SumSeq([k \in 1..Len(w) |-> c[k] * x[k][1] * (ProdSeq(w) \div w[k])]), ProdSeq(w)>>

\* The results a call can give.  An empty c is rejected while the inputs are
\* cleaned (ValueError raised by linprog itself); a negative capacity is
\* infeasible because no weight is negative (success is False).
linprog(c, A_ub, b_ub) ==
    LET w == A_ub[1]
        b == b_ub[1]
    IN  IF Len(c) = 0
        THEN {[status |-> "invalid", success |-> FALSE, x |-> <<>>, fun |-> <<0, 1>>]}
        ELSE IF b < 0
        THEN {[status |-> "infeasible", success |-> FALSE, x |-> <<>>, fun |-> <<0, 1>>]}
        ELSE {[status |-> "optimal", success |-> TRUE,
               x |-> LinprogVertex(w, b, p),
               fun |-> Objective(c, w, LinprogVertex(w, b, p))]
              : p \in FillOrders(c, w)}

----------------------------------------------------------------------------
(* knapsack(weights, values, capacity): the outcomes of one call.          *)
(* raised = "" when the call returns (value, x).                           *)

InvalidInput ==
    "Invalid input for linprog: c must be a 1-D array and must not have more than one non-singleton dimension"
OptimizationFailed == "Optimization failed"

knapsack(weights, values, capacity) ==
    LET c == [k \in 1..Len(values) |-> -values[k]]
        A_ub == <<weights>>
        b_ub == <<capacity>>
    IN  {IF result.status = "invalid"
         THEN [raised |-> InvalidInput, value |-> <<0, 1>>, x |-> <<>>]
         ELSE IF result.success
         THEN [raised |-> "", value |-> <<-result.fun[1], result.fun[2]>>, x |-> result.x]
         ELSE [raised |-> OptimizationFailed, value |-> <<0, 1>>, x |-> <<>>]
         : result \in linprog(c, A_ub, b_ub)}

\* [widths[i] for i in range(len(x)) if x[i] > 0.5]
RECURSIVE Threshold(_, _, _)
Threshold(widths, x, k) ==
    IF k > Len(x) THEN <<>>
    ELSE (IF 2 * x[k][1] > x[k][2] THEN <<widths[k]>> ELSE <<>>)
         \o Threshold(widths, x, k + 1)

\* capacity = coil_width, with coil_width, coil_length = coil
capacity_of(coil) == coil[1]

\* coil_width, coil_length = coil on a row that is not a pair, and
\* order[0], order[1] on a row of fewer than two columns.
TooManyValues == "too many values to unpack (expected 2)"
NotEnoughValues(n) ==
    IF n = 0 THEN "not enough values to unpack (expected 2, got 0)"
    ELSE "not enough values to unpack (expected 2, got 1)"
IndexOutOfRange == "tuple index out of range"

\* The outcomes of one pass of the loop body for a coil: the exception
\* raised (by the unpacking of the coil, by the indexing of an order, or by
\* knapsack), or the pattern built from x.
solve_coil(coil, os) ==
    IF Len(coil) > 2
    THEN {[raised |-> TooManyValues, pattern |-> <<>>]}
    ELSE IF Len(coil) < 2
    THEN {[raised |-> NotEnoughValues(Len(coil)), pattern |-> <<>>]}
    ELSE IF \E k \in 1..Len(os) : Len(os[k]) < 2
    THEN {[raised |-> IndexOutOfRange, pattern |-> <<>>]}
    ELSE
    LET widths == [k \in 1..Len(os) |-> os[k][1]]
        lengths == [k \in 1..Len(os) |-> os[k][2]]
    IN  {[raised |-> r.raised, pattern |-> Threshold(widths, r.x, 1)]
         : r \in knapsack(widths, lengths, capacity_of(coil))}

\* patterns.insert(0, (coil, pattern))
insert_pattern_first(ps, coil, pattern) == <<(<<coil, pattern>>)>> \o ps

\* patterns.append((coil, pattern))
append_pattern(ps, coil, pattern) == Append(ps, <<coil, pattern>>)

\* minimize_shear_adjustments(patterns)
minimize_shear_adjustments(ps) ==
    [k \in 1..Len(ps) |-> <<ps[k][1], sorted(ps[k][2])>>]

----------------------------------------------------------------------------
(* The callback update_output, step by step.                               *)

EmptyMax == "max() arg is an empty sequence"

NoOutput == [status |-> "", raw |-> <<>>, adjusted |-> <<>>, slider_max |-> 0]

\* except Exception as e: return f"An error occurred: {e}", "", go.Figure(), 0, 0
ErrorPrefix == "An error occurred: "
ErrorOutput(e) ==
    [status |-> ErrorPrefix \o e, raw |-> <<>>, adjusted |-> <<>>, slider_max |-> 0]

\* content_type, content_string = contents.split(',') on an upload whose
\* contents hold no comma, or more than one.
SplitErrors == {NotEnoughValues(1), TooManyValues}

\* str(n) for a natural number n.
Digit(d) ==
    CASE d = 0 -> "0" [] d = 1 -> "1" [] d = 2 -> "2" [] d = 3 -> "3" [] d = 4 -> "4"
      [] d = 5 -> "5" [] d = 6 -> "6" [] d = 7 -> "7" [] d = 8 -> "8" [] d = 9 -> "9"
RECURSIVE str(_)
str(n) == IF n < 10 THEN Digit(n) ELSE str(n \div 10) \o Digit(n % 10)

\* base64.b64decode(content_string) on a string of n data characters that
\* is no base64: padding is missing (n % 4 is 2 or 3), or no padding can
\* complete it (n % 4 = 1).
DataCharacters(n) ==
    IF n % 4 = 1
    THEN "Invalid base64-encoded string: number of data characters ("
         \o str(n) \o ") cannot be 1 more than a multiple of 4"
    ELSE "Incorrect padding"

\* What the decoding can raise: the above, or a character outside ASCII.
DecodeErrors ==
    {"string argument should contain only ASCII characters"}
    \cup {DataCharacters(n) : n \in {m \in 1..MaxDataCharacters : m % 4 # 0}}

\* pd.read_excel(io.BytesIO(decoded)) on bytes that are no Excel sheet (the
\* text is that of pandas).
ReadExcelErrors ==
    {"Excel file format cannot be determined, you must specify an engine manually."}

\* What parse_file can raise, for either of the two uploads.
ParseErrors == SplitErrors \cup DecodeErrors \cup ReadExcelErrors

Init ==
    /\ pc = "idle"
    /\ coils = <<>>
    /\ orders = <<>>
    /\ i = 1
    /\ patterns = <<>>
    /\ adjusted_patterns = <<>>
    /\ output = NoOutput

\* n_clicks == 0, or one of the two files is missing: PreventUpdate, no
\* output is touched.
PreventUpdate ==
    /\ pc = "idle"
    /\ pc' = "prevented"
    /\ UNCHANGED <<coils, orders, i, patterns, adjusted_patterns, output>>

\* Both sheets are parsed into lists of tuples and optimize_slitting_patterns
\* is entered with patterns = [].
ParseFiles ==
    /\ pc = "idle"
    /\ \E inp \in Inputs :
         /\ coils' = inp[1]
         /\ orders' = inp[2]
    /\ pc' = "optimize"
    /\ i' = 1
    /\ patterns' = <<>>
    /\ UNCHANGED <<adjusted_patterns, output>>

\* The parsing of an upload raises (in the split, the decoding or the
\* reading of the sheet): the catch-all returns the error outputs and
\* optimize_slitting_patterns is never entered.
ParseRaises ==
    /\ pc = "idle"
    /\ \E e \in ParseErrors : output' = ErrorOutput(e)
    /\ pc' = "error"
    /\ UNCHANGED <<coils, orders, i, patterns, adjusted_patterns>>

\* One pass of the loop of optimize_slitting_patterns in which knapsack
\* returns: the pattern of coil i is appended.
SolveCoil ==
    /\ pc = "optimize"
    /\ i <= Len(coils)
    /\ \E r \in solve_coil(coils[i], orders) :
         /\ r.raised = ""
         /\ patterns' = append_pattern(patterns, coils[i], r.pattern)
    /\ i' = i + 1
    /\ UNCHANGED <<pc, coils, orders, adjusted_patterns, output>>

\* One pass in which the unpacking of the coil, the indexing of an order or
\* knapsack raises: the exception leaves
\* optimize_slitting_patterns (its list of patterns is lost) and is caught by
\* the callback's except clause, which returns the error outputs.
SolveRaises ==
    /\ pc = "optimize"
    /\ i <= Len(coils)
    /\ \E r \in solve_coil(coils[i], orders) :
         /\ r.raised # ""
         /\ output' = ErrorOutput(r.raised)
    /\ patterns' = <<>>
    /\ pc' = "error"
    /\ UNCHANGED <<coils, orders, i, adjusted_patterns>>

\* The loop is over: optimize_slitting_patterns returns patterns.
OptimizeReturns ==
    /\ pc = "optimize"
    /\ i > Len(coils)
    /\ pc' = "sequence"
    /\ UNCHANGED <<coils, orders, i, patterns, adjusted_patterns, output>>

\* cuts.sort() on the lists of the raw patterns themselves
SequenceInPlace ==
    /\ pc = "sequence"
    /\ adjusted_patterns' = minimize_shear_adjustments(patterns)
    /\ patterns' = minimize_shear_adjustments(patterns)
    /\ pc' = "render"
    /\ UNCHANGED <<coils, orders, i, output>>

\* adjusted_patterns = minimize_shear_adjustments(patterns)
Sequence ==
    /\ pc = "sequence"
    /\ adjusted_patterns' = minimize_shear_adjustments(patterns)
    /\ pc' = "render"
    /\ UNCHANGED <<coils, orders, i, patterns, output>>

\* max(max(widths) for coil, widths in patterns) raises ValueError when there
\* is no pattern or a pattern has no cut.
RenderRaises ==
    \/ patterns = <<>>
    \/ \E k \in 1..Len(patterns) : patterns[k][2] = <<>>

\* The tables and the figure are built and the outputs returned, or the
\* catch-all returns the error outputs.
Render ==
    /\ pc = "render"
    /\ IF RenderRaises
       THEN /\ pc' = "error"
            /\ output' = ErrorOutput(EmptyMax)
       ELSE /\ pc' = "done"
            /\ output' = [status |-> "Files successfully uploaded and processed.",
                          raw |-> patterns, adjusted |-> adjusted_patterns,
                          slider_max |-> Len(patterns) - 1]
    /\ UNCHANGED <<coils, orders, i, patterns, adjusted_patterns>>

Next ==
    \/ PreventUpdate
    \/ ParseFiles
    \/ ParseRaises
    \/ SolveCoil
    \/ SolveRaises
    \/ OptimizeReturns
    \/ Sequence
    \/ Render

Spec == Init /\ [][Next]_vars

----------------------------------------------------------------------------
(* Vocabulary of the properties.                                           *)

SolverErrors == {ErrorPrefix \o InvalidInput, ErrorPrefix \o OptimizationFailed}

\* The solve of coil k raised.
FailedAt(k) == pc = "error" /\ output.status \in SolverErrors /\ i = k

\* Both functions have returned.
Planned == pc \in {"render", "done"}

WidthOf(os, S) == SumSeq([k \in 1..Len(os) |-> IF k \in S THEN os[k][1] ELSE 0])
LengthOf(os, S) == SumSeq([k \in 1..Len(os) |-> IF k \in S THEN os[k][2] ELSE 0])

\* The widths of the orders of S, in catalog order.
RECURSIVE CutsOf(_, _, _)
CutsOf(os, S, k) ==
    IF k > Len(os) THEN <<>>
    ELSE (IF k \in S THEN <<os[k][1]>> ELSE <<>>) \o CutsOf(os, S, k + 1)

\* The 0/1 knapsack optimum by enumeration of all subsets.
BruteForceOptimum(cap, os) ==
    LET fits == {S \in SUBSET (1..Len(os)) : WidthOf(os, S) <= cap}
    IN  CHOOSE best \in {LengthOf(os, S) : S \in fits} :
            \A S \in fits : LengthOf(os, S) <= best

\* The patterns a coil of this width can get from the full order list.
PatternsFor(width, os) ==
    LET widths == [k \in 1..Len(os) |-> os[k][1]]
        lengths == [k \in 1..Len(os) |-> os[k][2]]
    IN  {Threshold(widths, r.x, 1) : r \in {q \in knapsack(widths, lengths, width) : q.raised = ""}}

Count(s, v) == Cardinality({k \in 1..Len(s) : s[k] = v})
SameMultiset(s, t) ==
    /\ Len(s) = Len(t)
    /\ \A k \in 1..Len(s) : Count(s, s[k]) = Count(t, s[k])
NonDecreasing(s) == \A k \in 1..(Len(s) - 1) : s[k] <= s[k + 1]
Range(s) == {s[k] : k \in 1..Len(s)}

----------------------------------------------------------------------------
(* Properties.                                                             *)

\* C1: every pattern produced for a coil has a sum of cuts that does not
\* exceed the coil's width.
CapacityInvariant ==
    \A k \in 1..Len(patterns) : SumSeq(patterns[k][2]) <= patterns[k][1][1]

\* C2: the orders selected for a coil have the maximum total length among
\* the subsets of orders that fit the coil's width; on the scenario the
\* selected widths are {20, 30, 50}.
Optimality ==
    \A k \in 1..Len(patterns) :
        /\ \E S \in SUBSET (1..Len(orders)) :
              /\ CutsOf(orders, S, 1) = patterns[k][2]
              /\ LengthOf(orders, S) = BruteForceOptimum(patterns[k][1][1], orders)
        /\ (orders = ScenarioOrders /\ patterns[k][1][1] = 100)
              => Range(patterns[k][2]) = {20, 30, 50}

\* The scenario alone: coil width 100 against the four orders selects the
\* widths {20, 30, 50}, of total length 13.
ScenarioSelection ==
    \A k \in 1..Len(patterns) :
        (orders = ScenarioOrders /\ patterns[k][1][1] = 100)
            => /\ patterns[k][2] = <<30, 50, 20>>
               /\ BruteForceOptimum(100, orders) = 13

\* C3: when the solve of one coil fails because the solver reports no
\* success, the returned plan still has one entry per input coil.
FailureIsolation ==
    (pc = "error" /\ output.status = ErrorPrefix \o OptimizationFailed)
        => /\ Len(output.raw) = Len(coils)
           /\ Len(output.adjusted) = Len(coils)

\* C4: after both functions, there is one raw and one adjusted pattern per
\* input coil, and the k-th of each carries the k-th coil.
PositionalCorrespondence ==
    /\ pc = "optimize" => Len(patterns) = i - 1
    /\ pc \in {"sequence", "render", "done"} => Len(patterns) = Len(coils)
    /\ Planned => Len(adjusted_patterns) = Len(coils)
    /\ \A k \in 1..Len(patterns) : patterns[k][1] = coils[k]
    /\ \A k \in 1..Len(adjusted_patterns) : adjusted_patterns[k][1] = coils[k]

PositionalWitness ==
    /\ pc = "render"
    /\ coils = <<(<<0, 1>>), (<<100, 1>>)>>
    /\ orders = ScenarioOrders
    /\ patterns = <<(<<(<<0, 1>>), <<>>>>), (<<(<<100, 1>>), <<30, 50, 20>>>>)>>
    /\ adjusted_patterns[2] = <<(<<100, 1>>), <<20, 30, 50>>>>

\* C5: the adjusted cuts of every pattern are in non-decreasing order and
\* are the same multiset of widths as the pattern's cuts.
AscendingPermutation ==
    Planned =>
        /\ Len(adjusted_patterns) = Len(patterns)
        /\ \A k \in 1..Len(adjusted_patterns) :
              /\ NonDecreasing(adjusted_patterns[k][2])
              /\ SameMultiset(adjusted_patterns[k][2], patterns[k][2])

AscendingWitness ==
    /\ pc = "render"
    /\ \E k \in 1..Len(patterns) :
          /\ adjusted_patterns[k][2] # patterns[k][2]
          /\ \E v \in Range(patterns[k][2]) : Count(patterns[k][2], v) > 1

\* C6: no cut of a coil's pattern is larger than the coil's width.
NoOversizedCut ==
    \A k \in 1..Len(patterns) :
        \A c \in Range(patterns[k][2]) : c <= patterns[k][1][1]

\* C7: a coil solved against an empty order list, and a coil of width zero,
\* get an empty pattern and no failure.
EmptyInputBehaviour ==
    \A k \in 1..Len(coils) :
        (coils[k][1] >= 0 /\ (orders = <<>> \/ coils[k][1] = 0))
            => /\ ~FailedAt(k)
               /\ k <= Len(patterns) => patterns[k][2] = <<>>

\* The second half alone: a coil of width zero gets an empty pattern.
ZeroWidthEmpty ==
    \A k \in 1..Len(coils) :
        (orders # <<>> /\ coils[k][1] = 0)
            => /\ ~FailedAt(k)
               /\ k <= Len(patterns) => patterns[k][2] = <<>>

\* C9: sequencing the output of sequencing returns that output.
Idempotence ==
    Planned => minimize_shear_adjustments(adjusted_patterns) = adjusted_patterns

IdempotenceWitness ==
    /\ pc = "render"
    /\ \E k \in 1..Len(adjusted_patterns) :
          /\ Len(adjusted_patterns[k][2]) >= 3
          /\ adjusted_patterns[k][2] # patterns[k][2]

\* C10: the coil list and the order list are never changed by the run,
\* sequencing leaves the raw patterns as they are, and the outputs hold
\* the raw and the adjusted patterns side by side.
NoMutation ==
    [][/\ pc # "idle" => (coils' = coils /\ orders' = orders)
       /\ pc \in {"sequence", "render"} => patterns' = patterns
       /\ pc' = "done" => (output'.raw = patterns' /\ output'.adjusted = adjusted_patterns')
       /\ pc' = "render" =>
             \A k \in 1..Len(patterns') :
                 patterns'[k][2] \in PatternsFor(coils'[k][1], orders')]_vars

NoMutationWitness ==
    /\ pc = "done"
    /\ \E k \in 1..Len(output.raw) : output.raw[k][2] # output.adjusted[k][2]

====
